---- MODULE Spec2Model ----
(***************************************************************************)
(* The runtime layer of rust-hyperscan (src/runtime.rs): the scratch        *)
(* space wrapper RawScratch, the match-event callback bridge, the block     *)
(* and vectored scanners and the stream wrapper RawStream, together with    *)
(* the native engine they call.  The wrapper code is translated from        *)
(* runtime.rs; the native hs_* functions are the environment of that code   *)
(* and are modelled by what the tests of runtime.rs and the design text     *)
(* say of them.                                                             *)
(***************************************************************************)
EXTENDS Integers, Sequences, FiniteSets, TLC

(* ------------------------------------------------------------------ *)
(* Bounds of the model                                                 *)
(* ------------------------------------------------------------------ *)

\* buffers in one vectored scan
MaxBufs == 3

\* chunks fed to one native stream between open/reset and close
MaxChunks == 3

\* native scratch regions the allocator hands out
MaxRegions == 3

\* native stream states the engine hands out
MaxNative == 2

\* the calls a predicate makes from inside one invocation of a scan
MaxNested == 1

\* the multiples of 2^32 bytes a buffer may be long
MaxHigh == 1

(* ------------------------------------------------------------------ *)
(* Data: buffers are sequences of bytes                                *)
(* ------------------------------------------------------------------ *)

Foo == <<"f", "o", "o">>
Test == <<"t", "e", "s", "t">>
Bar == <<"b", "a", "r">>
Te == <<"t", "e">>
St == <<"s", "t">>
FooTestBar == <<"f", "o", "o", " ", "t", "e", "s", "t", " ", "b", "a", "r">>

\* the chunks a stream is fed with
Chunks == {Foo, Test, Bar, Te, St}

RECURSIVE SeqsUpTo(_, _)
SeqsUpTo(S, n) ==
    IF n = 0 THEN {<<>>}
    ELSE LET shorter == SeqsUpTo(S, n - 1)
         IN  shorter \cup {Append(q, x) : q \in {p \in shorter : Len(p) = n - 1}, x \in S}

\* the buffer lists of a vectored scan: every list of up to MaxBufs buffers that
\* hold no match, a whole match or half of one, and the list of test_vectored_scan
VecData == SeqsUpTo({Foo, Test, Te, St}, MaxBufs) \cup {<<Foo, Test, Bar>>}

RECURSIVE Concat(_)
Concat(bufs) == IF bufs = <<>> THEN <<>> ELSE Head(bufs) \o Concat(Tail(bufs))

BlockData == {FooTestBar, Test \o Test, Test \o Bar, Foo, Te \o St \o Bar, <<>>}

(* ------------------------------------------------------------------ *)
(* Compiled databases (built outside runtime.rs; opaque to it)         *)
(* ------------------------------------------------------------------ *)

\* pattern!{"test", flags => HS_FLAG_SOM_LEFTMOST} as in test_block_scan
DbBlock == [name |-> "block", req |-> 2385,
            pats |-> << [id |-> 0, lit |-> Test, som |-> TRUE, eod |-> FALSE] >>]

\* the same pattern compiled for vectored mode, as in test_vectored_scan
DbVectored == [name |-> "vectored", req |-> 2385,
               pats |-> << [id |-> 0, lit |-> Test, som |-> TRUE, eod |-> FALSE] >>]

\* pattern "test" without start-of-match tracking, as in test_streaming_scan,
\* and a second pattern "bar$" that can only match at the end of the data
DbStreaming == [name |-> "streaming", req |-> 2385,
                pats |-> << [id |-> 0, lit |-> Test, som |-> FALSE, eod |-> FALSE],
                            [id |-> 1, lit |-> Bar, som |-> FALSE, eod |-> TRUE] >>]

\* pattern!{"foobar"} of test_scratch: needs more scratch than "test"
DbFoobar == [name |-> "foobar", req |-> 2385 + 1,
             pats |-> << [id |-> 0, lit |-> Foo \o Bar, som |-> FALSE, eod |-> FALSE] >>]

Databases == {DbBlock, DbVectored, DbStreaming, DbFoobar}

(* ------------------------------------------------------------------ *)
(* The native matcher                                                  *)
(* ------------------------------------------------------------------ *)

Max(a, b) == IF a >= b THEN a ELSE b

\* the last n elements of s (all of s when it is shorter)
LastN(s, n) == IF Len(s) <= n THEN s ELSE SubSeq(s, Len(s) - n + 1, Len(s))

EndsWith(s, lit) == Len(s) >= Len(lit) /\ LastN(s, Len(lit)) = lit

MatchEvent(p, to) ==
    [id |-> p.id, from |-> IF p.som THEN to - Len(p.lit) ELSE 0, to |-> to, flags |-> 0]

\* the events of the patterns of db (of the given eod kind) whose literal ends
\* at the end of `seen`, the end being offset `to` of the scanned data
EventsEndingHere(db, seen, to, eod) ==
    LET hit(p) == p.eod = eod /\ EndsWith(seen, p.lit)
        hits == SelectSeq(db.pats, hit)
    IN  [k \in 1..Len(hits) |-> MatchEvent(hits[k], to)]

\* Block mode: the matches of one contiguous buffer, found position by position
RECURSIVE BlockEventsUpTo(_, _, _)
BlockEventsUpTo(db, data, i) ==
    IF i = 0 THEN <<>>
    ELSE BlockEventsUpTo(db, data, i - 1)
         \o EventsEndingHere(db, SubSeq(data, 1, i), i, FALSE)

BlockEvents(db, data) ==
    BlockEventsUpTo(db, data, Len(data))
    \o EventsEndingHere(db, data, Len(data), TRUE)

\* Stream and vectored mode: the engine keeps the offset reached and the last
\* bytes seen (as many as a match can still need), and is fed buffer by buffer
MaxLit(db) == LET lens == {Len(db.pats[k].lit) : k \in 1..Len(db.pats)}
              IN  CHOOSE m \in lens : \A n \in lens : n <= m

FreshProgress == [off |-> 0, hist |-> <<>>]

RECURSIVE FeedBytes(_, _, _, _)
FeedBytes(db, prog, bytes, evs) ==
    IF bytes = <<>> THEN [prog |-> prog, events |-> evs]
    ELSE LET seen == Append(prog.hist, Head(bytes))
             off == prog.off + 1
         IN  FeedBytes(db,
                       [off |-> off, hist |-> LastN(seen, MaxLit(db))],
                       Tail(bytes),
                       evs \o EventsEndingHere(db, seen, off, FALSE))

\* feeding one chunk: the new progress state and the events the chunk completes
Feed(db, prog, bytes) == FeedBytes(db, prog, bytes, <<>>)

\* the events held back until the end of the data
EodEvents(db, prog) == EventsEndingHere(db, prog.hist, prog.off, TRUE)

IsPrefix(s, t) == Len(s) <= Len(t) /\ SubSeq(t, 1, Len(s)) = s

(* ------------------------------------------------------------------ *)
(* State                                                               *)
(* ------------------------------------------------------------------ *)

\* the caller's variables holding a RawScratch (test_scratch: s, s2)
ScratchVars == {"s", "s2"}

\* the caller's variables holding a RawStream (test_streaming_scan: st)
StreamVars == {"st", "st2"}

Regions == 1..MaxRegions
Natives == 1..MaxNative

VARIABLES
    scratch,    \* per variable: whether it holds a RawScratch, and its pointer (0 = null)
    region,     \* per native scratch region: unalloc / alloc / freed, and its size
    stream,     \* per variable: whether it holds a RawStream, and its pointer (0 = null)
    nstream,    \* per native stream state: unalloc / open / released, its progress
    call,       \* the scan/reset/close call in progress, or the last one made
    pending,    \* matches the engine has found in this call and not yet reported
    reported,   \* match events handed to match_event_callback in this call
    answers,    \* what the caller's predicate returned, invocation by invocation
    active,     \* activations of the caller's predicate on the stack
    result,     \* what the last call returned
    pc,         \* idle / running (inside a native scan) / crashed / panicked
    faults      \* memory errors committed so far

vars == <<scratch, region, stream, nstream, call, pending, reported, answers,
          active, result, pc, faults>>

scratchState == <<scratch, region>>
streamState == <<stream, nstream>>
callState == <<call, pending, reported, answers, active>>

Ok(v) == [tag |-> "Ok", val |-> v]
Err(e) == [tag |-> "Err", val |-> e]
\* Result::Ok(size as usize)
OkSize(n) == [tag |-> "Ok", val |-> "usize", size |-> n]
NotReturned == [tag |-> "none", val |-> "none"]

NoDb == [name |-> "none", req |-> 0, pats |-> <<>>]
\* a usize: hi * 2^32 + lo, with lo below 2^32
USize(k) == [hi |-> 0, lo |-> k]

\* what a scan hands over: the pointers, the 32-bit lengths and the 32-bit
\* count, and the usize lengths (sizes) and count (n) they were converted from
NoArgs == [ptrs |-> <<>>, lens |-> <<>>, count |-> 0, sizes |-> <<>>, n |-> USize(0)]

\* a call record: what was called with what (scratch: the variable holding the
\* scratch), what the engine was handed (args, w), what it found behind the
\* stream pointer (read, broken), whether the handler has stopped it (halted),
\* the calls made from inside the predicate (nested), the native return code
\* (rv) and the Result (ret)
NoCall == [op |-> "none", db |-> NoDb, data |-> <<>>, args |-> NoArgs,
           target |-> "none", scratch |-> "none", handler |-> "None", nested |-> 0,
           w |-> [handler |-> "null", context |-> "null"], read |-> "valid",
           broken |-> FALSE, halted |-> FALSE, rv |-> "HS_SUCCESS",
           ret |-> NotReturned]

Init ==
    /\ scratch = [v \in ScratchVars |-> [st |-> "unborn", ptr |-> 0]]
    /\ region = [r \in Regions |-> [st |-> "unalloc", size |-> 0]]
    /\ stream = [v \in StreamVars |-> [st |-> "unborn", ptr |-> 0]]
    /\ nstream = [n \in Natives |->
                    [st |-> "unalloc", db |-> NoDb, prog |-> FreshProgress,
                     fed |-> <<>>, broken |-> FALSE]]
    /\ call = NoCall
    /\ pending = <<>>
    /\ reported = <<>>
    /\ answers = <<>>
    /\ active = 0
    /\ result = Ok("unit")
    /\ pc = "idle"
    /\ faults = {}

(* ------------------------------------------------------------------ *)
(* Error conversion (the macros of the crate)                          *)
(* ------------------------------------------------------------------ *)

\* Error::from(hs_error_t)
ErrorOf(rv) ==
    CASE rv = "HS_INVALID" -> "Invalid"
      [] rv = "HS_NOMEM" -> "NoMem"
      [] rv = "HS_SCAN_TERMINATED" -> "ScanTerminated"
      [] OTHER -> "Failed"

\* check_hs_error!: a native failure becomes an early return of Err
check_hs_error(rv, okval) == IF rv = "HS_SUCCESS" THEN Ok(okval) ELSE Err(ErrorOf(rv))

(* ------------------------------------------------------------------ *)
(* The native scratch allocator                                        *)
(* ------------------------------------------------------------------ *)

HasFreshRegion(regs) == \E r \in Regions : regs[r].st = "unalloc"
FreshRegion(regs) == CHOOSE r \in Regions :
                        /\ regs[r].st = "unalloc"
                        /\ \A q \in Regions : regs[q].st = "unalloc" => r <= q

\* hs_free_scratch: null is accepted; a region already freed is a double free
hs_free_scratch(ptr, regs) ==
    IF ptr = 0 THEN [rv |-> "HS_SUCCESS", regs |-> regs, faults |-> {}]
    ELSE IF regs[ptr].st = "alloc"
         THEN [rv |-> "HS_SUCCESS",
               regs |-> [regs EXCEPT ![ptr].st = "freed"], faults |-> {}]
         ELSE [rv |-> "HS_SUCCESS", regs |-> regs, faults |-> {"scratch_double_free"}]

\* whether hs_alloc_scratch has to take a new region from the allocator
NeedsRegion(db, ptr, regs, nomem) == ~nomem /\ (ptr = 0 \/ regs[ptr].size < db.req)

\* hs_alloc_scratch(db, &mut ptr): with a null ptr it allocates; with a region
\* that is large enough it changes nothing; otherwise it replaces the region by
\* a larger one.  When the allocator fails the old region is gone and ptr is null.
hs_alloc_scratch(db, ptr, regs, nomem) ==
    LET used == IF ptr # 0 /\ regs[ptr].st # "alloc" THEN {"scratch_use_after_free"} ELSE {}
        old == IF ptr = 0 THEN 0 ELSE regs[ptr].size
        released == hs_free_scratch(ptr, regs)
        fresh == FreshRegion(released.regs)
    IN  IF nomem
        THEN [rv |-> "HS_NOMEM", ptr |-> 0, regs |-> released.regs,
              faults |-> used \cup released.faults]
        ELSE IF ~NeedsRegion(db, ptr, regs, nomem)
        THEN [rv |-> "HS_SUCCESS", ptr |-> ptr, regs |-> regs, faults |-> used]
        ELSE [rv |-> "HS_SUCCESS", ptr |-> fresh,
              regs |-> [released.regs EXCEPT
                           ![fresh] = [st |-> "alloc", size |-> Max(old, db.req)]],
              faults |-> used \cup released.faults]

\* hs_clone_scratch(src, &mut dest): a new region of the same size
hs_clone_scratch(src, regs, nomem) ==
    LET used == IF src # 0 /\ regs[src].st # "alloc" THEN {"scratch_use_after_free"} ELSE {}
        fresh == FreshRegion(regs)
    IN  IF src = 0 THEN [rv |-> "HS_INVALID", ptr |-> 0, regs |-> regs, faults |-> {}]
        ELSE IF nomem THEN [rv |-> "HS_NOMEM", ptr |-> 0, regs |-> regs, faults |-> used]
        ELSE [rv |-> "HS_SUCCESS", ptr |-> fresh,
              regs |-> [regs EXCEPT ![fresh] = [st |-> "alloc", size |-> regs[src].size]],
              faults |-> used]

\* hs_scratch_size(ptr, &mut size)
hs_scratch_size(ptr, regs) ==
    IF ptr = 0 THEN [rv |-> "HS_INVALID", size |-> 0, faults |-> {}]
    ELSE [rv |-> "HS_SUCCESS", size |-> regs[ptr].size,
          faults |-> IF regs[ptr].st # "alloc" THEN {"scratch_use_after_free"} ELSE {}]

(* ------------------------------------------------------------------ *)
(* RawScratch                                                          *)
(* ------------------------------------------------------------------ *)

\* let v = RawScratch::alloc(&db): on Err no RawScratch is constructed
alloc(v, db, nomem) ==
    /\ pc = "idle"
    /\ scratch[v].st # "live"
    /\ HasFreshRegion(region)
    /\ LET n == hs_alloc_scratch(db, 0, region, nomem)
       IN  /\ region' = n.regs
           /\ faults' = faults \cup n.faults
           /\ result' = check_hs_error(n.rv, v)
           /\ scratch' = IF n.rv = "HS_SUCCESS"
                         THEN [scratch EXCEPT ![v] = [st |-> "live", ptr |-> n.ptr]]
                         ELSE scratch
    /\ pc' = pc
    /\ UNCHANGED <<streamState, callState>>

\* Drop for RawScratch: runs when the variable goes out of scope; `corrupt` is
\* the native free refusing the region (its header is damaged), which panics
drop(v, corrupt) ==
    /\ pc = "idle"
    /\ scratch[v].st = "live"
    /\ LET n == IF corrupt
                THEN [rv |-> "HS_INVALID", regs |-> region, faults |-> {}]
                ELSE hs_free_scratch(scratch[v].ptr, region)
       IN  /\ region' = n.regs
           /\ faults' = faults \cup n.faults
           /\ pc' = IF n.rv = "HS_SUCCESS" THEN pc ELSE "panicked"
    /\ scratch' = [scratch EXCEPT ![v].st = "dropped"]
    /\ UNCHANGED <<streamState, callState, result>>

\* let w = v.clone(): a native failure panics and no value is made
clone_mut_copy_pointer(v, w, nomem) ==
    /\ pc = "idle"
    /\ scratch[v].st = "live"
    /\ scratch[w].st # "live"
    /\ HasFreshRegion(region)
    /\ scratch' = [scratch EXCEPT ![w] = [st |-> "live", ptr |-> scratch[v].ptr]]
    /\ UNCHANGED <<region, faults, pc, streamState, callState, result>>

clone_by_alloc(v, w, nomem) ==
    /\ pc = "idle"
    /\ scratch[v].st = "live"
    /\ scratch[w].st # "live"
    /\ HasFreshRegion(region)
    /\ LET n == hs_alloc_scratch(DbBlock, 0, region, nomem)
       IN  /\ region' = n.regs
           /\ faults' = faults \cup n.faults
           /\ pc' = IF n.rv = "HS_SUCCESS" THEN pc ELSE "panicked"
           /\ scratch' = IF n.rv = "HS_SUCCESS"
                         THEN [scratch EXCEPT ![w] = [st |-> "live", ptr |-> n.ptr]]
                         ELSE scratch
    /\ UNCHANGED <<streamState, callState, result>>

clone(v, w, nomem) ==
    /\ pc = "idle"
    /\ scratch[v].st = "live"
    /\ scratch[w].st # "live"
    /\ HasFreshRegion(region)
    /\ LET n == hs_clone_scratch(scratch[v].ptr, region, nomem)
       IN  /\ region' = n.regs
           /\ faults' = faults \cup n.faults
           /\ pc' = IF n.rv = "HS_SUCCESS" THEN pc ELSE "panicked"
           /\ scratch' = IF n.rv = "HS_SUCCESS"
                         THEN [scratch EXCEPT ![w] = [st |-> "live", ptr |-> n.ptr]]
                         ELSE scratch
    /\ UNCHANGED <<streamState, callState, result>>

\* v.size()
size(v) ==
    /\ pc = "idle"
    /\ scratch[v].st = "live"
    /\ LET n == hs_scratch_size(scratch[v].ptr, region)
       IN  /\ faults' = faults \cup n.faults
           /\ result' = IF n.rv = "HS_SUCCESS"
                         THEN OkSize(n.size)
                         ELSE check_hs_error(n.rv, "usize")
    /\ UNCHANGED <<scratchState, streamState, callState, pc>>

\* v.realloc(&db): the native call writes the pointer held by v, also on failure
realloc_to_exact_size(v, db, nomem) ==
    /\ pc = "idle"
    /\ scratch[v].st = "live"
    /\ HasFreshRegion(region)
    /\ LET released == hs_free_scratch(scratch[v].ptr, region)
           n == hs_alloc_scratch(db, 0, released.regs, nomem)
       IN  /\ region' = n.regs
           /\ faults' = faults \cup released.faults \cup n.faults
           /\ scratch' = [scratch EXCEPT ![v].ptr = n.ptr]
           /\ result' = check_hs_error(n.rv, v)
    /\ UNCHANGED <<streamState, callState, pc>>

realloc(v, db, nomem) ==
    /\ pc = "idle"
    /\ scratch[v].st = "live"
    /\ NeedsRegion(db, scratch[v].ptr, region, nomem) => HasFreshRegion(region)
    /\ LET n == hs_alloc_scratch(db, scratch[v].ptr, region, nomem)
       IN  /\ region' = n.regs
           /\ faults' = faults \cup n.faults
           /\ scratch' = [scratch EXCEPT ![v].ptr = n.ptr]
           /\ result' = check_hs_error(n.rv, v)
    /\ UNCHANGED <<streamState, callState, pc>>

(* ------------------------------------------------------------------ *)
(* The match callback bridge                                           *)
(* ------------------------------------------------------------------ *)

INT_TRUE == 1
INT_FALSE == 0

\* handler: Option<&MatchEventCallback>
Handlers == {"None", "Some"}

\* wrap_match_event_handler!: with Some(callback) the context is the address of
\* `callback`, the binding of the match arm, whose scope ends with the arm
wrap_match_event_handler_none_as_some(handler) ==
    IF handler = "None"
    THEN [handler |-> "match_event_callback", context |-> "null"]
    ELSE [handler |-> "match_event_callback", context |-> "arm_local"]

wrap_match_event_handler(handler) ==
    IF handler = "None"
    THEN [handler |-> "null", context |-> "null"]
    ELSE [handler |-> "match_event_callback", context |-> "arm_local"]

\* the storage a context points to is out of scope when the native call is made
Dangling(context) == context = "arm_local"

\* what reading a context can give: the callback reference it held, or, the
\* storage being dead, whatever the build left there; null cannot be read
ContextReads(context) ==
    IF context = "null" THEN {"clobbered"}
    ELSE IF Dangling(context) THEN {"intact", "clobbered"}
    ELSE {"intact"}

\* match_event_callback: the value handed back to the engine
match_event_callback_inverted(b) == IF b THEN INT_FALSE ELSE INT_TRUE

match_event_callback_always_true(b) == INT_TRUE

match_event_callback_always_false(b) == INT_FALSE

match_event_callback(b) == IF b THEN INT_TRUE ELSE INT_FALSE

\* the engine stops a scan when the handler returns non-zero (test_block_scan:
\* a callback returning true ends the scan with ScanTerminated; test_streaming_scan:
\* a callback returning false lets every scan succeed)
HandlerHalts(ret) == ret # 0

\* `len as u32`: the low 32 bits of a usize, computed on 16-bit halves
AsU32(n) == ((n.lo \div 65536) % 65536) * 65536 + (n.lo % 65536)

(* ------------------------------------------------------------------ *)
(* The native scanners                                                 *)
(* ------------------------------------------------------------------ *)

\* the scratch handed to a scan goes to the engine unchecked.  The engine
\* refuses a null scratch; one too small for the database it may refuse or,
\* its validation not seeing it, run on
Undersized(db, ptr) == ptr # 0 /\ region[ptr].size < db.req

ScratchCheck(db, ptr) ==
    IF ptr = 0 THEN {"HS_INVALID"}
    ELSE IF Undersized(db, ptr) THEN {"HS_INVALID", "HS_SUCCESS"}
    ELSE {"HS_SUCCESS"}

ScratchFaults(db, ptr, rv) ==
    (IF ptr # 0 /\ region[ptr].st # "alloc" THEN {"scratch_use_after_free"} ELSE {})
    \cup (IF Undersized(db, ptr) /\ rv = "HS_SUCCESS" THEN {"scratch_undersized"} ELSE {})

\* hs_scan(db, data, length, ...)
hs_scan(db, ptr, length) == BlockEvents(db, SubSeq(ptr, 1, length))

\* hs_scan_vector(db, data, length, count, ...): the first `count` buffers, each
\* for its length, as one logical stream
RECURSIVE VectorFeed(_, _, _, _, _, _)
VectorFeed(db, ptrs, lens, count, k, acc) ==
    IF k > count THEN acc.events \o EodEvents(db, acc.prog)
    ELSE LET n == Feed(db, acc.prog, SubSeq(ptrs[k], 1, lens[k]))
         IN  VectorFeed(db, ptrs, lens, count, k + 1,
                        [prog |-> n.prog, events |-> acc.events \o n.events])

hs_scan_vector(db, ptrs, lens, count) ==
    VectorFeed(db, ptrs, lens, count, 1, [prog |-> FreshProgress, events |-> <<>>])

\* the call record of a scan/reset/close that has entered the native engine
NewCall(op, db, data, args, target, s, handler, read, broken) ==
    [op |-> op, db |-> db, data |-> data, args |-> args, target |-> target,
     scratch |-> s, handler |-> handler, nested |-> 0,
     w |-> wrap_match_event_handler(handler),
     read |-> read, broken |-> broken, halted |-> FALSE,
     rv |-> "HS_SUCCESS", ret |-> NotReturned]

\* entering a native scan: the engine reports matches only to a handler
Enter(c, rv, events) ==
    /\ call' = [c EXCEPT !.rv = rv]
    /\ pending' = IF rv = "HS_SUCCESS" /\ c.w.handler # "null" THEN events ELSE <<>>
    /\ reported' = <<>>
    /\ answers' = <<>>
    /\ active' = 0
    /\ pc' = "running"

\* BlockScanner for BlockDatabase: db.scan(data, &s, handler)
block_scan_resuming(db, data, s, handler) ==
    /\ pc = "idle"
    /\ scratch[s].st = "live"
    /\ LET bytes == data
           len == USize(Len(bytes))
           a == [ptrs |-> <<bytes>>, lens |-> <<AsU32(len)>>, count |-> 1,
                 sizes |-> <<len>>, n |-> USize(1)]
           found == hs_scan(db, a.ptrs[1], a.lens[1])
       IN  \E rv \in ScratchCheck(db, scratch[s].ptr) :
              /\ Enter(NewCall("block", db, <<data>>, a, "none", s, handler, "valid", FALSE),
                       rv,
                       IF result = Err("ScanTerminated") /\ found # <<>>
                       THEN Tail(found) ELSE found)
              /\ faults' = faults \cup ScratchFaults(db, scratch[s].ptr, rv)
    /\ UNCHANGED <<scratchState, streamState, result>>

block_scan(db, data, s, handler) ==
    /\ pc = "idle"
    /\ scratch[s].st = "live"
    /\ LET bytes == data
           len == USize(Len(bytes))
           a == [ptrs |-> <<bytes>>, lens |-> <<AsU32(len)>>, count |-> 1,
                 sizes |-> <<len>>, n |-> USize(1)]
       IN  \E rv \in ScratchCheck(db, scratch[s].ptr) :
              /\ Enter(NewCall("block", db, <<data>>, a, "none", s, handler, "valid", FALSE),
                       rv, hs_scan(db, a.ptrs[1], a.lens[1]))
              /\ faults' = faults \cup ScratchFaults(db, scratch[s].ptr, rv)
    /\ UNCHANGED <<scratchState, streamState, result>>

\* db.scan(data, &s, handler) for a buffer too long to write out: `data` are its
\* first bytes and 2^32 * high more bytes follow them
block_scan_large(db, data, high, s, handler) ==
    /\ pc = "idle"
    /\ scratch[s].st = "live"
    /\ LET bytes == data
           len == [hi |-> high, lo |-> Len(bytes)]
           a == [ptrs |-> <<bytes>>, lens |-> <<AsU32(len)>>, count |-> 1,
                 sizes |-> <<len>>, n |-> USize(1)]
       IN  \E rv \in ScratchCheck(db, scratch[s].ptr) :
              /\ Enter(NewCall("block", db, <<data>>, a, "none", s, handler, "valid", FALSE),
                       rv, hs_scan(db, a.ptrs[1], a.lens[1]))
              /\ faults' = faults \cup ScratchFaults(db, scratch[s].ptr, rv)
    /\ UNCHANGED <<scratchState, streamState, result>>

\* the caller's predicate, while it runs, itself calls db.scan(data, &s, None):
\* scan takes the scratch by shared reference, so s may be the scratch of the
\* scan that is calling the predicate.  The engine then either refuses the
\* scratch as in use or, not noticing, runs on memory the outer scan is using
NestedOutcomes(s) == IF s = call.scratch THEN {"refused", "corrupted"} ELSE {"done"}

nested_scan(db, data, s, outcome) ==
    /\ pc = "running"
    /\ active = 1
    /\ scratch[s].st = "live"
    /\ call.nested < MaxNested
    /\ outcome \in NestedOutcomes(s)
    /\ call' = [call EXCEPT !.nested = @ + 1]
    /\ faults' = faults \cup ScratchFaults(db, scratch[s].ptr, "HS_SUCCESS")
                         \cup (IF s = call.scratch THEN {"scratch_shared"} ELSE {})
    /\ pc' = IF outcome = "corrupted" THEN "crashed" ELSE pc
    /\ UNCHANGED <<scratchState, streamState, pending, reported, answers, active, result>>

\* the ptrs and lens vectors built by the loop over data, and the count
vectored_args_reversed(data) ==
    [ptrs |-> [k \in 1..Len(data) |-> data[Len(data) + 1 - k]],
     lens |-> [k \in 1..Len(data) |-> AsU32(USize(Len(data[Len(data) + 1 - k])))],
     count |-> AsU32(USize(Len(data))),
     sizes |-> [k \in 1..Len(data) |-> USize(Len(data[Len(data) + 1 - k]))],
     n |-> USize(Len(data))]

vectored_args(data) ==
    [ptrs |-> [k \in 1..Len(data) |-> data[k]],
     lens |-> [k \in 1..Len(data) |-> AsU32(USize(Len(data[k])))],
     count |-> AsU32(USize(Len(data))),
     sizes |-> [k \in 1..Len(data) |-> USize(Len(data[k]))],
     n |-> USize(Len(data))]

\* VectoredScanner for VectoredDatabase: db.scan(&data, &s, handler)
vectored_scan(db, data, s, handler) ==
    /\ pc = "idle"
    /\ scratch[s].st = "live"
    /\ LET a == vectored_args(data)
       IN  \E rv \in ScratchCheck(db, scratch[s].ptr) :
              /\ Enter(NewCall("vectored", db, data, a, "none", s, handler, "valid", FALSE),
                       rv, hs_scan_vector(db, a.ptrs, a.lens, a.count))
              /\ faults' = faults \cup ScratchFaults(db, scratch[s].ptr, rv)
    /\ UNCHANGED <<scratchState, streamState, result>>

(* ------------------------------------------------------------------ *)
(* Streams                                                             *)
(* ------------------------------------------------------------------ *)

HasFreshNative == \E n \in Natives : nstream[n].st = "unalloc"
FreshNative == CHOOSE n \in Natives :
                  /\ nstream[n].st = "unalloc"
                  /\ \A m \in Natives : nstream[m].st = "unalloc" => n <= m

\* what the engine finds behind a stream pointer: a released state is freed
\* memory, which may still hold the old contents or may not
StreamReads(n) == IF nstream[n].st = "open" THEN {"valid"} ELSE {"stale", "crash"}

StreamFaults(n, fault) == IF nstream[n].st = "open" THEN {} ELSE {fault}

\* hs_scan_stream(id, data, length, ...): a stream stopped by its handler
\* scans nothing more
hs_scan_stream(n, chunk, length) ==
    IF n.broken
    THEN [native |-> n, events |-> <<>>, rv |-> "HS_SCAN_TERMINATED"]
    ELSE LET f == Feed(n.db, n.prog, SubSeq(chunk, 1, length))
         IN  [native |-> [n EXCEPT !.prog = f.prog, !.fed = Append(@, chunk)],
              events |-> f.events, rv |-> "HS_SUCCESS"]

\* hs_reset_stream(id, flags, ...): reports what was held back for the end of
\* the data, then starts the stream afresh
hs_reset_stream(n) ==
    [native |-> [n EXCEPT !.prog = FreshProgress, !.fed = <<>>, !.broken = FALSE],
     events |-> IF n.broken THEN <<>> ELSE EodEvents(n.db, n.prog),
     rv |-> "HS_SUCCESS"]

\* hs_close_stream(id, ...): reports what was held back for the end of the
\* data, then releases the stream state
hs_close_stream(n) ==
    [native |-> [n EXCEPT !.st = "released"],
     events |-> IF n.broken THEN <<>> ELSE EodEvents(n.db, n.prog),
     rv |-> "HS_SUCCESS"]

\* StreamingScanner for StreamingDatabase: let v = db.open_stream(flags)
open_stream_retrying(v, db, nomem) ==
    /\ pc = "idle"
    /\ stream[v].st = "unborn"
    /\ HasFreshNative
    /\ result' = check_hs_error("HS_SUCCESS", v)
    /\ nstream' = [nstream EXCEPT ![FreshNative] =
                      [st |-> "open", db |-> db, prog |-> FreshProgress,
                       fed |-> <<>>, broken |-> FALSE]]
    /\ stream' = [stream EXCEPT ![v] = [st |-> "live", ptr |-> FreshNative]]
    /\ UNCHANGED <<scratchState, callState, pc, faults>>

open_stream(v, db, nomem) ==
    /\ pc = "idle"
    /\ stream[v].st = "unborn"
    /\ HasFreshNative
    /\ IF nomem
       THEN /\ result' = check_hs_error("HS_NOMEM", v)
            /\ UNCHANGED streamState
       ELSE /\ result' = check_hs_error("HS_SUCCESS", v)
            /\ nstream' = [nstream EXCEPT ![FreshNative] =
                              [st |-> "open", db |-> db, prog |-> FreshProgress,
                               fed |-> <<>>, broken |-> FALSE]]
            /\ stream' = [stream EXCEPT ![v] = [st |-> "live", ptr |-> FreshNative]]
    /\ UNCHANGED <<scratchState, callState, pc, faults>>

\* hs_copy_stream(&mut id, from): a new stream state holding a copy of the
\* contents found behind `from`
hs_copy_stream(n) == [n EXCEPT !.st = "open"]

\* Clone for RawStream: let w = v.clone(); a native failure panics
stream_clone_copy_pointer(v, w, nomem, read) ==
    /\ pc = "idle"
    /\ stream[v].st = "live"
    /\ stream[w].st = "unborn"
    /\ HasFreshNative
    /\ read \in StreamReads(stream[v].ptr)
    /\ stream' = [stream EXCEPT ![w] = [st |-> "live", ptr |-> stream[v].ptr]]
    /\ UNCHANGED <<nstream, faults, pc, scratchState, callState, result>>

stream_clone(v, w, nomem, read) ==
    LET id == stream[v].ptr
    IN  /\ pc = "idle"
        /\ stream[v].st = "live"
        /\ stream[w].st = "unborn"
        /\ HasFreshNative
        /\ read \in StreamReads(id)
        /\ faults' = faults \cup StreamFaults(id, "stream_use_after_release")
        /\ IF read = "crash"
           THEN pc' = "crashed" /\ UNCHANGED streamState
           ELSE IF nomem
           THEN pc' = "panicked" /\ UNCHANGED streamState
           ELSE /\ pc' = pc
                /\ nstream' = [nstream EXCEPT ![FreshNative] = hs_copy_stream(nstream[id])]
                /\ stream' = [stream EXCEPT ![w] = [st |-> "live", ptr |-> FreshNative]]
        /\ UNCHANGED <<scratchState, callState, result>>

\* a native call on the stream held by v: `step` is what the engine does to the
\* stream state it finds there
StreamCall(op, v, data, args, s, handler, read, step, fault) ==
    LET id == stream[v].ptr
        db == nstream[id].db
        c == NewCall(op, db, data, args, v, s, handler, read, nstream[id].broken)
    IN  /\ pc = "idle"
        /\ stream[v].st = "live"
        /\ scratch[s].st = "live"
        /\ read \in StreamReads(id)
        /\ IF read = "crash"
           THEN /\ pc' = "crashed"
                /\ call' = c
                /\ pending' = <<>>
                /\ reported' = <<>>
                /\ answers' = <<>>
                /\ faults' = faults \cup StreamFaults(id, fault)
                /\ UNCHANGED <<active, nstream>>
           ELSE \E rv \in ScratchCheck(db, scratch[s].ptr) :
                /\ Enter(c, IF rv = "HS_SUCCESS" THEN step.rv ELSE rv, step.events)
                /\ nstream' = IF rv = "HS_SUCCESS"
                              THEN [nstream EXCEPT ![id] = step.native]
                              ELSE nstream
                /\ faults' = faults \cup ScratchFaults(db, scratch[s].ptr, rv)
                                     \cup StreamFaults(id, fault)
        /\ UNCHANGED <<scratchState, stream, result>>

\* BlockScanner for RawStream: v.scan(data, &s, handler)
stream_scan_as_block(v, data, s, handler, read) ==
    /\ stream[v].st = "live"
    /\ Len(nstream[stream[v].ptr].fed) < MaxChunks
    /\ LET bytes == data
           len == USize(Len(bytes))
           a == [ptrs |-> <<bytes>>, lens |-> <<AsU32(len)>>, count |-> 1,
                 sizes |-> <<len>>, n |-> USize(1)]
           n == nstream[stream[v].ptr]
       IN  StreamCall("stream", v, <<data>>, a, s, handler, read,
                      [native |-> [n EXCEPT !.fed = Append(@, data)],
                       events |-> hs_scan(n.db, a.ptrs[1], a.lens[1]),
                       rv |-> "HS_SUCCESS"],
                      "stream_use_after_release")

stream_scan(v, data, s, handler, read) ==
    /\ stream[v].st = "live"
    /\ Len(nstream[stream[v].ptr].fed) < MaxChunks
    /\ LET bytes == data
           len == USize(Len(bytes))
           a == [ptrs |-> <<bytes>>, lens |-> <<AsU32(len)>>, count |-> 1,
                 sizes |-> <<len>>, n |-> USize(1)]
       IN  StreamCall("stream", v, <<data>>, a, s, handler, read,
                      hs_scan_stream(nstream[stream[v].ptr], a.ptrs[1], a.lens[1]),
                      "stream_use_after_release")

\* Stream for RawStream: v.reset(flags, &s, handler)
stream_reset_without_native_call(v, s, handler, read) ==
    /\ stream[v].st = "live"
    /\ StreamCall("reset", v, <<>>, NoArgs, s, handler, read,
                  [native |-> nstream[stream[v].ptr], events |-> <<>>, rv |-> "HS_SUCCESS"],
                  "stream_use_after_release")

stream_reset(v, s, handler, read) ==
    /\ stream[v].st = "live"
    /\ StreamCall("reset", v, <<>>, NoArgs, s, handler, read,
                  hs_reset_stream(nstream[stream[v].ptr]), "stream_use_after_release")

\* Stream for RawStream: v.close(&s, handler); v still holds the pointer after it
stream_close(v, s, handler, read) ==
    /\ stream[v].st = "live"
    /\ StreamCall("close", v, <<>>, NoArgs, s, handler, read,
                  hs_close_stream(nstream[stream[v].ptr]), "stream_double_release")

\* v goes out of scope: RawStream implements no Drop, nothing is released
stream_scope_exit(v) ==
    /\ pc = "idle"
    /\ stream[v].st = "live"
    /\ stream' = [stream EXCEPT ![v].st = "gone"]
    /\ UNCHANGED <<scratchState, nstream, callState, result, pc, faults>>

(* ------------------------------------------------------------------ *)
(* The native engine running inside a call                             *)
(* ------------------------------------------------------------------ *)

\* the engine hands its next match to match_event_callback, which reads the
\* callback reference behind the context and calls the caller's predicate
hs_deliver_overlapping(read) ==
    /\ pc = "running"
    /\ ~call.halted
    /\ pending # <<>>
    /\ read = "intact"
    /\ reported' = Append(reported, Head(pending))
    /\ pending' = Tail(pending)
    /\ active' = active + 1
    /\ UNCHANGED <<scratchState, streamState, call, answers, result, pc, faults>>

hs_deliver(read) ==
    LET context == call.w.context
    IN  /\ pc = "running"
        /\ active = 0
        /\ ~call.halted
        /\ pending # <<>>
        /\ read \in ContextReads(context)
        /\ reported' = Append(reported, Head(pending))
        /\ pending' = Tail(pending)
        /\ faults' = faults \cup (IF Dangling(context) THEN {"dangling_context"} ELSE {})
        /\ IF read = "intact"
           THEN active' = active + 1 /\ pc' = pc
           ELSE active' = active /\ pc' = "crashed"
        /\ UNCHANGED <<scratchState, streamState, call, answers, result>>

\* the caller's predicate returns b; match_event_callback turns it into the
\* handler's return value, on which the engine goes on or stops
predicate_return(b) ==
    /\ pc = "running"
    /\ active >= 1
    /\ answers' = Append(answers, b)
    /\ active' = active - 1
    /\ call' = [call EXCEPT !.halted = HandlerHalts(match_event_callback(b))]
    /\ UNCHANGED <<scratchState, streamState, pending, reported, result, pc, faults>>

\* the codes a native call can return: a scan stopped by its handler returns
\* HS_SCAN_TERMINATED; hs_reset_stream and hs_close_stream stopped during their
\* flush return HS_SUCCESS in the native library and ScanTerminated by the
\* design text, so both are allowed
ReturnCodes(c) ==
    IF ~c.halted THEN {c.rv}
    ELSE IF c.op \in {"reset", "close"} THEN {"HS_SCAN_TERMINATED", "HS_SUCCESS"}
    ELSE {"HS_SCAN_TERMINATED"}

\* the native call returns and check_hs_error! turns its code into the Result;
\* a stream whose scan was stopped by the handler stays stopped
hs_return(code) ==
    /\ pc = "running"
    /\ active = 0
    /\ pending = <<>> \/ call.halted
    /\ code \in ReturnCodes(call)
    /\ result' = check_hs_error(code, "self")
    /\ call' = [call EXCEPT !.rv = code, !.ret = check_hs_error(code, "self")]
    /\ pending' = <<>>
    /\ pc' = "idle"
    /\ nstream' = IF call.op = "stream" /\ call.halted
                  THEN [nstream EXCEPT ![stream[call.target].ptr].broken = TRUE]
                  ELSE nstream
    /\ UNCHANGED <<scratchState, stream, reported, answers, active, faults>>

(* ------------------------------------------------------------------ *)
(* Specifications                                                      *)
(* ------------------------------------------------------------------ *)

\* the buffers of the tests of runtime.rs, and two more with several matches
ScanSets == {<<Foo, Test, Bar>>, <<Te, St, Test>>, <<Test, Bar>>}

StreamChunks == {Foo, Test, Bar}

\* Scanning in the three modes with one scratch space and one stream
Next ==
    \/ \E nomem \in BOOLEAN : alloc("s", DbBlock, nomem)
    \/ \E data \in BlockData, h \in Handlers : block_scan(DbBlock, data, "s", h)
    \/ \E data \in ScanSets, h \in Handlers : vectored_scan(DbVectored, data, "s", h)
    \/ \E nomem \in BOOLEAN : open_stream("st", DbStreaming, nomem)
    \/ \E c \in StreamChunks, h \in Handlers, r \in {"valid", "stale", "crash"} :
          stream_scan("st", c, "s", h, r)
    \/ \E h \in Handlers, r \in {"valid", "stale", "crash"} : stream_reset("st", "s", h, r)
    \/ \E h \in Handlers, r \in {"valid", "stale", "crash"} : stream_close("st", "s", h, r)
    \/ stream_scope_exit("st")
    \/ \E r \in {"intact", "clobbered"} : hs_deliver(r)
    \/ \E b \in BOOLEAN : predicate_return(b)
    \/ \E code \in {"HS_SUCCESS", "HS_SCAN_TERMINATED"} : hs_return(code)

Spec == Init /\ [][Next]_vars

(* ------------------------------------------------------------------ *)
(* Properties of the callback bridge and the scanners (under Spec)     *)
(* ------------------------------------------------------------------ *)

Returned == call.ret # NotReturned
IsScan == call.op \in {"block", "vectored", "stream"}
AllAnswers(b) == \A i \in 1..Len(answers) : answers[i] = b

\* the matches of the data of a call, by the block matcher on the whole data;
\* for a stream scan, those that end in the chunk of this call
Expected(c) ==
    IF c.op = "stream"
    THEN LET whole == Concat(nstream[stream[c.target].ptr].fed)
             before == Len(whole) - Len(c.data[1])
             InChunk(e) == e.to > before
         IN  SelectSeq(BlockEventsUpTo(c.db, whole, Len(whole)), InChunk)
    ELSE BlockEvents(c.db, Concat(c.data))

\* C1 as stated: when the predicate returns false on its first invocation the
\* scan stops: the predicate is invoked exactly once and the call returns
\* Err(ScanTerminated)
C1_FalseStopsScan ==
    (call.handler = "Some" /\ answers # <<>> /\ answers[1] = FALSE)
        => /\ Len(answers) = 1
           /\ Returned => call.ret = Err("ScanTerminated")

\* C1 amended: when the predicate returns true on its first invocation the
\* scan or flush stops at once: no further match is reported, the predicate is
\* invoked exactly once in that call, and a block, vectored or stream scan
\* returns Err(ScanTerminated)
C1_TrueStopsScan ==
    (call.handler = "Some" /\ answers # <<>> /\ answers[1] = TRUE)
        => /\ Len(answers) = 1
           /\ Len(reported) = 1
           /\ active = 0
           /\ (Returned /\ IsScan) => call.ret = Err("ScanTerminated")

C1_Witness ==
    /\ Returned
    /\ call.op = "block"
    /\ call.data = <<Test \o Test>>
    /\ answers = <<TRUE>>
    /\ call.ret = Err("ScanTerminated")

C3_AsTheTestsAssert ==
    /\ (Returned /\ call.op \in {"block", "vectored"} /\ call.handler = "Some"
            /\ answers # <<>> /\ answers[Len(answers)] = TRUE)
          => call.ret = Err("ScanTerminated")
    /\ (Returned /\ call.op \in {"stream", "close"} /\ call.handler = "Some"
            /\ call.read = "valid" /\ ~call.broken /\ AllAnswers(FALSE))
          => call.ret = Ok("self")

C3_Witness ==
    /\ Returned
    /\ call.op = "stream"
    /\ nstream[stream[call.target].ptr].fed = <<Foo, Test>>
    /\ reported = << [id |-> 0, from |-> 0, to |-> 7, flags |-> 0] >>
    /\ answers = <<FALSE>>
    /\ call.ret = Ok("self")

\* C7: without a callback the engine is handed a null handler and a null
\* context, no predicate is invoked, and a scan on valid handles returns success
C7_NoCallback ==
    (call.op # "none" /\ call.handler = "None")
        => /\ call.w = [handler |-> "null", context |-> "null"]
           /\ reported = <<>>
           /\ answers = <<>>
           /\ active = 0
           /\ (Returned /\ IsScan /\ call.read = "valid" /\ ~call.broken)
                 => call.ret = Ok("self")

C7_Witness ==
    /\ Returned
    /\ call.op = "vectored"
    /\ call.handler = "None"
    /\ Len(Expected(call)) = 2
    /\ call.ret = Ok("self")

C4_ClosedStreamRefusesUse ==
    /\ "stream_use_after_release" \notin faults
    /\ "stream_double_release" \notin faults
    /\ (call.op \in {"stream", "reset", "close"} /\ call.read # "valid")
          => /\ reported = <<>>
             /\ pc # "crashed"
             /\ Returned => call.ret.tag = "Err"

\* C5 as stated: the native state of every stream is released exactly once:
\* never twice, and never left unreleased once no handle holds it
C5_StreamReleasedExactlyOnce ==
    /\ "stream_double_release" \notin faults
    /\ \A n \in Natives :
          nstream[n].st = "open"
              => \E v \in StreamVars : stream[v].st = "live" /\ stream[v].ptr = n

(* ------------------------------------------------------------------ *)
(* The scratch life cycle                                              *)
(* ------------------------------------------------------------------ *)

NextScratch ==
    \/ \E v \in ScratchVars, db \in {DbBlock, DbFoobar}, nomem \in BOOLEAN :
          alloc(v, db, nomem)
    \/ \E v \in ScratchVars : drop(v, FALSE)
    \/ \E v, w \in ScratchVars, nomem \in BOOLEAN : clone(v, w, nomem)
    \/ \E v \in ScratchVars : size(v)
    \/ \E v \in ScratchVars, db \in {DbBlock, DbFoobar}, nomem \in BOOLEAN :
          realloc(v, db, nomem)
    \/ \E v \in ScratchVars, db \in {DbBlock, DbFoobar} : block_scan(db, FooTestBar, v, "None")
    \/ \E code \in {"HS_SUCCESS", "HS_INVALID"} : hs_return(code)

SpecScratch == Init /\ [][NextScratch]_vars

Live(v) == scratch[v].st = "live"

\* C6: every native scratch region is freed exactly once: none is freed twice or
\* used after it was freed, no two live RawScratch values hold the same region,
\* a live RawScratch never holds a freed region, and a region is allocated only
\* as long as a live RawScratch holds it (dropping the value, or replacing the
\* region in realloc, frees it)
C6_ScratchFreedExactlyOnce ==
    /\ "scratch_double_free" \notin faults
    /\ "scratch_use_after_free" \notin faults
    /\ \A v, w \in ScratchVars :
          (v # w /\ Live(v) /\ Live(w) /\ scratch[v].ptr # 0)
              => scratch[v].ptr # scratch[w].ptr
    /\ \A v \in ScratchVars :
          (Live(v) /\ scratch[v].ptr # 0) => region[scratch[v].ptr].st = "alloc"
    /\ \A r \in Regions :
          region[r].st = "alloc" => \E v \in ScratchVars : Live(v) /\ scratch[v].ptr = r

\* s allocated, cloned into s2, s2 grown by realloc, s dropped, s2 scanned with
C6_Witness ==
    /\ scratch["s"].st = "dropped"
    /\ Live("s2")
    /\ region[1].st = "freed"
    /\ region[2].st = "freed"
    /\ scratch["s2"].ptr # 0
    /\ region[scratch["s2"].ptr] = [st |-> "alloc", size |-> DbFoobar.req]
    /\ call.op = "block"
    /\ call.ret = Ok("self")

(* ------------------------------------------------------------------ *)
(* Vectored scans of all buffer lists                                  *)
(* ------------------------------------------------------------------ *)

NextVectored ==
    \/ \E nomem \in BOOLEAN : alloc("s", DbVectored, nomem)
    \/ \E data \in VecData, h \in Handlers : vectored_scan(DbVectored, data, "s", h)
    \/ \E r \in {"intact", "clobbered"} : hs_deliver(r)
    \/ \E b \in BOOLEAN : predicate_return(b)
    \/ \E code \in {"HS_SUCCESS", "HS_SCAN_TERMINATED"} : hs_return(code)

SpecVectored == Init /\ [][NextVectored]_vars

\* the match events of a block scan of the buffers laid end to end
BlockScanOfConcat(data) == hs_scan(DbBlock, Concat(data), AsU32(USize(Len(Concat(data)))))

\* C9: a vectored scan hands the engine the buffers in the order supplied, each
\* with its length, and their number, and the match events reported are those
\* of a block scan of the concatenation (a prefix of them while the scan runs
\* or when the predicate stops it)
C9_VectoredAsBlock ==
    call.op = "vectored"
        => /\ call.args.ptrs = call.data
           /\ call.args.count = Len(call.data)
           /\ \A k \in 1..Len(call.data) : call.args.lens[k] = Len(call.data[k])
           /\ IsPrefix(reported, BlockScanOfConcat(call.data))
           /\ (Returned /\ call.handler = "Some" /\ AllAnswers(FALSE))
                 => reported = BlockScanOfConcat(call.data)

C9_Witness ==
    /\ Returned
    /\ call.op = "vectored"
    /\ call.data = <<Foo, Test, Bar>>
    /\ reported = << [id |-> 0, from |-> 3, to |-> 7, flags |-> 0] >>
    /\ call.ret = Ok("self")

(* ------------------------------------------------------------------ *)
(* Streams fed with all chunk sequences                                *)
(* ------------------------------------------------------------------ *)

NextStream ==
    \/ \E nomem \in BOOLEAN : alloc("s", DbStreaming, nomem)
    \/ \E nomem \in BOOLEAN : open_stream("st", DbStreaming, nomem)
    \/ \E c \in Chunks, h \in Handlers, r \in {"valid", "stale", "crash"} :
          stream_scan("st", c, "s", h, r)
    \/ \E h \in Handlers, r \in {"valid", "stale", "crash"} : stream_close("st", "s", h, r)
    \/ \E r \in {"intact", "clobbered"} : hs_deliver(r)
    \/ \E b \in BOOLEAN : predicate_return(b)
    \/ \E code \in {"HS_SUCCESS", "HS_SCAN_TERMINATED"} : hs_return(code)

SpecStream == Init /\ [][NextStream]_vars

\* C10: the matches reported during the scan of a chunk are those matches of
\* the concatenation of all chunks fed so far that end inside this chunk, with
\* the offsets of the concatenation (a prefix of them while the scan runs or
\* when the predicate stops it)
C10_StreamAsConcatenation ==
    (call.op = "stream" /\ call.read = "valid" /\ ~call.broken)
        => /\ IsPrefix(reported, Expected(call))
           /\ (Returned /\ call.handler = "Some" /\ AllAnswers(FALSE))
                 => reported = Expected(call)

\* "te" and "st" arrive in different chunks, after "foo"
C10_Witness ==
    /\ Returned
    /\ call.op = "stream"
    /\ nstream[stream[call.target].ptr].fed = <<Foo, Te, St>>
    /\ reported = << [id |-> 0, from |-> 0, to |-> 7, flags |-> 0] >>
    /\ call.ret = Ok("self")

(* ------------------------------------------------------------------ *)
(* Streams that are reset                                              *)
(* ------------------------------------------------------------------ *)

NextReset ==
    \/ \E nomem \in BOOLEAN : alloc("s", DbStreaming, nomem)
    \/ \E nomem \in BOOLEAN : open_stream("st", DbStreaming, nomem)
    \/ \E c \in {Te, St, Bar}, h \in Handlers, r \in {"valid", "stale", "crash"} :
          stream_scan("st", c, "s", h, r)
    \/ \E h \in Handlers, r \in {"valid", "stale", "crash"} : stream_reset("st", "s", h, r)
    \/ \E h \in Handlers, r \in {"valid", "stale", "crash"} : stream_close("st", "s", h, r)
    \/ \E r \in {"intact", "clobbered"} : hs_deliver(r)
    \/ \E b \in BOOLEAN : predicate_return(b)
    \/ \E code \in {"HS_SUCCESS", "HS_SCAN_TERMINATED"} : hs_return(code)

SpecReset == Init /\ [][NextReset]_vars

\* a reset of the open stream behind v enters the engine (with a usable scratch)
EntersReset(v) ==
    /\ pc = "idle"
    /\ pc' = "running"
    /\ call'.op = "reset"
    /\ call'.target = v
    /\ call'.read = "valid"
    /\ call'.rv = "HS_SUCCESS"

\* after a reset of an open stream has returned success: the stream is open and
\* its progress is that of a freshly opened stream
FreshAfterReset ==
    (Returned /\ call.op = "reset" /\ call.read = "valid" /\ call.ret = Ok("self"))
        => LET n == nstream[stream[call.target].ptr]
           IN  /\ stream[call.target].st = "live"
               /\ n.st = "open"
               /\ n.prog = FreshProgress
               /\ ~n.broken

\* the matches a scan reports are matches of the chunks fed since the last reset
\* alone, at offsets counted from the reset
NothingAcrossReset ==
    (call.op = "stream" /\ call.read = "valid" /\ ~call.broken)
        => /\ IsPrefix(reported, Expected(call))
           /\ \A k \in 1..Len(reported) :
                 reported[k].to <= Len(Concat(nstream[stream[call.target].ptr].fed))

\* C11: a reset of an open stream hands the matches held back for the end of
\* the data to the callback, in the call that clears the state; after it has
\* returned success the stream is still open with the progress of a freshly
\* opened stream, and later scans report nothing that involves bytes fed before
\* the reset
C11_ResetStartsAfresh ==
    [][ /\ \A v \in StreamVars :
             EntersReset(v) =>
                LET n == nstream[stream[v].ptr]
                IN  /\ pending' = IF call'.handler = "Some" /\ ~n.broken
                                  THEN EodEvents(n.db, n.prog) ELSE <<>>
                    /\ nstream'[stream[v].ptr].prog = FreshProgress
                    /\ nstream'[stream[v].ptr].st = "open"
        /\ FreshAfterReset'
        /\ NothingAcrossReset' ]_vars

\* "bar" was fed, the reset reported the match held back for the end of the
\* data, and the stream starts again at offset 0
C11_Witness ==
    /\ Returned
    /\ call.op = "reset"
    /\ call.read = "valid"
    /\ call.ret = Ok("self")
    /\ reported = << [id |-> 1, from |-> 0, to |-> 3, flags |-> 0] >>
    /\ answers = <<FALSE>>
    /\ nstream[stream["st"].ptr].prog = FreshProgress

(* ------------------------------------------------------------------ *)
(* A stream and its clone                                              *)
(* ------------------------------------------------------------------ *)

NextClone ==
    \/ \E nomem \in BOOLEAN : alloc("s", DbStreaming, nomem)
    \/ \E nomem \in BOOLEAN : open_stream("st", DbStreaming, nomem)
    \/ \E nomem \in BOOLEAN, r \in {"valid", "stale", "crash"} :
          stream_clone("st", "st2", nomem, r)
    \/ \E v \in StreamVars, c \in {Te, St}, h \in Handlers, r \in {"valid", "stale", "crash"} :
          stream_scan(v, c, "s", h, r)
    \/ \E v \in StreamVars, r \in {"valid", "stale", "crash"} : stream_reset(v, "s", "None", r)
    \/ \E v \in StreamVars, r \in {"valid", "stale", "crash"} : stream_close(v, "s", "None", r)
    \/ \E r \in {"intact", "clobbered"} : hs_deliver(r)
    \/ \E b \in BOOLEAN : predicate_return(b)
    \/ \E code \in {"HS_SUCCESS", "HS_SCAN_TERMINATED"} : hs_return(code)

SpecClone == Init /\ [][NextClone]_vars

\* the stream behind v is open (v holds it and it has not been closed)
OpenStream(v) ==
    /\ stream[v].st = "live"
    /\ nstream[stream[v].ptr].st = "open"

\* C12: the clone of an open stream is a new open stream with the progress the
\* original has at that moment, and the original is left as it was; afterwards
\* a scan, reset or close on one of the two changes neither the progress nor the
\* open/closed status of the other
C12_StreamCloneIndependent ==
    [][ /\ \A v, w \in StreamVars :
             (OpenStream(v) /\ stream_clone(v, w, FALSE, "valid")) =>
                /\ stream'[w].st = "live"
                /\ stream'[w].ptr # stream[v].ptr
                /\ nstream'[stream'[w].ptr].st = "open"
                /\ nstream'[stream'[w].ptr].prog = nstream[stream[v].ptr].prog
                /\ nstream'[stream[v].ptr] = nstream[stream[v].ptr]
                /\ stream'[v] = stream[v]
        /\ \A v, w \in StreamVars :
             (v # w /\ OpenStream(w) /\ stream[v].st = "live"
                  /\ call'.target = v /\ (pc = "running" \/ pc' = "running")) =>
                /\ stream'[w] = stream[w]
                /\ nstream'[stream[w].ptr] = nstream[stream[w].ptr] ]_vars

\* st was fed "te" and cloned; the clone, fed "st", reports the match, and st
\* still is where it was
C12_Witness ==
    /\ Returned
    /\ call.op = "stream"
    /\ call.target = "st2"
    /\ reported = << [id |-> 0, from |-> 0, to |-> 4, flags |-> 0] >>
    /\ OpenStream("st")
    /\ nstream[stream["st"].ptr].fed = <<Te>>
    /\ nstream[stream["st2"].ptr].fed = <<Te, St>>

(* ------------------------------------------------------------------ *)
(* A scratch space and its clone (under SpecScratch)                   *)
(* ------------------------------------------------------------------ *)

\* v holds a scratch region
Holds(v) == Live(v) /\ scratch[v].ptr # 0

\* a realloc, drop or scan step made with the scratch of v
ActsOn(v) ==
    \/ \E db \in {DbBlock, DbFoobar}, nomem \in BOOLEAN : realloc(v, db, nomem)
    \/ drop(v, FALSE)
    \/ \E db \in {DbBlock, DbFoobar} : block_scan(db, FooTestBar, v, "None")

\* C13: the clone of a scratch is another handle, on another region of the
\* size of the original's, and the original is left as it was; afterwards a
\* realloc, scan or drop on one of the two changes neither the size nor the
\* validity of the other
C13_ScratchCloneIndependent ==
    [][ /\ \A v, w \in ScratchVars :
             (Holds(v) /\ clone(v, w, FALSE)) =>
                /\ v # w
                /\ Holds(w)'
                /\ scratch'[w].ptr # scratch[v].ptr
                /\ region'[scratch'[w].ptr] =
                      [st |-> "alloc", size |-> region[scratch[v].ptr].size]
                /\ scratch'[v] = scratch[v]
                /\ region'[scratch[v].ptr] = region[scratch[v].ptr]
        /\ \A v, w \in ScratchVars :
             (v # w /\ Holds(w) /\ ActsOn(v)) =>
                /\ scratch'[w] = scratch[w]
                /\ region'[scratch[w].ptr] = region[scratch[w].ptr] ]_vars

\* test_scratch: s2 is the clone of s, and after s2.realloc(&db2) the size of
\* s2 is greater than that of s, which still is 2385
C13_Witness ==
    /\ Holds("s")
    /\ Holds("s2")
    /\ region[scratch["s"].ptr] = [st |-> "alloc", size |-> DbBlock.req]
    /\ region[scratch["s2"].ptr] = [st |-> "alloc", size |-> DbFoobar.req]
    /\ scratch["s"].ptr < scratch["s2"].ptr
    /\ result = Ok("s2")

\* what v.size() reports for a scratch that holds a region
SizeOf(v) == IF scratch[v].ptr = 0 THEN 0 ELSE region[scratch[v].ptr].size

NextReentrant ==
    \/ \E v \in ScratchVars, nomem \in BOOLEAN : alloc(v, DbBlock, nomem)
    \/ \E v \in ScratchVars, data \in {FooTestBar, Test \o Test} :
          block_scan(DbBlock, data, v, "Some")
    \/ \E v \in ScratchVars, outcome \in {"refused", "corrupted", "done"} :
          nested_scan(DbBlock, Test, v, outcome)
    \/ \E r \in {"intact", "clobbered"} : hs_deliver(r)
    \/ \E b \in BOOLEAN : predicate_return(b)
    \/ \E code \in {"HS_SUCCESS", "HS_SCAN_TERMINATED"} : hs_return(code)

SpecReentrant == Init /\ [][NextReentrant]_vars

\* C15 as stated: no scan begins with a scratch that an unfinished scan is using
C15_ScratchNeverShared == "scratch_shared" \notin faults

(* ------------------------------------------------------------------ *)
(* Scratch spaces and the databases they are used with                 *)
(* ------------------------------------------------------------------ *)

\* C16 as stated: the engine never runs on a scratch smaller than the database
\* requires, a call made with such a scratch being refused
C16_NoUndersizedScratch ==
    /\ "scratch_undersized" \notin faults
    /\ (call.op # "none" /\ call.scratch # "none" /\ Live(call.scratch)
            /\ Undersized(call.db, scratch[call.scratch].ptr) /\ Returned)
          => call.ret.tag = "Err"

(* ------------------------------------------------------------------ *)
(* Buffers of 2^32 bytes and more                                      *)
(* ------------------------------------------------------------------ *)

NextLarge ==
    \/ \E nomem \in BOOLEAN : alloc("s", DbBlock, nomem)
    \/ \E data \in BlockData, high \in 0..MaxHigh, h \in Handlers :
          block_scan_large(DbBlock, data, high, "s", h)
    \/ \E r \in {"intact", "clobbered"} : hs_deliver(r)
    \/ \E b \in BOOLEAN : predicate_return(b)
    \/ \E code \in {"HS_SUCCESS", "HS_SCAN_TERMINATED"} : hs_return(code)

SpecLarge == Init /\ [][NextLarge]_vars

\* C19 as stated: every length handed to the engine is the byte length of its
\* buffer, and the count is the number of buffers
C19_LengthsSurviveTheCast ==
    /\ call.args.n = USize(call.args.count)
    /\ Len(call.args.lens) = Len(call.args.sizes)
    /\ \A k \in 1..Len(call.args.sizes) :
          call.args.sizes[k] = USize(call.args.lens[k])

(* ------------------------------------------------------------------ *)
(* Block and vectored scans after a scan that was stopped (under Spec) *)
(* ------------------------------------------------------------------ *)

\* a block or vectored scan enters the engine
EntersScan ==
    /\ pc = "idle"
    /\ pc' = "running"
    /\ call'.op \in {"block", "vectored"}

\* a step of a block or vectored scan: entering, reporting, returning
ScanStep ==
    /\ call'.op \in {"block", "vectored"}
    /\ pc = "running" \/ pc' = "running"

\* C17: a block or vectored scan depends on nothing but its database and data:
\* whatever was scanned before and however that ended, the engine sets out to
\* report all matches of the data; no step of the scan changes a scratch space
\* or a stream; and what was reported when the call returns, with
\* ScanTerminated or not, is a prefix of the matches of the data and stands
C17_StatelessAndRecoverable ==
    [][ /\ EntersScan =>
             pending' = IF call'.handler = "Some" /\ call'.rv = "HS_SUCCESS"
                        THEN Expected(call') ELSE <<>>
        /\ ScanStep =>
             /\ UNCHANGED <<scratch, region, stream, nstream>>
             /\ IsPrefix(reported', Expected(call'))
        /\ (ScanStep /\ pc' = "idle") =>
             /\ reported' = reported
             /\ answers' = answers
             /\ call'.ret = Err("ScanTerminated") =>
                   (answers # <<>> /\ answers[Len(answers)] = TRUE) ]_vars

\* the last call returned ScanTerminated, and the block scan now running has
\* reported the match of "foo test bar" all the same
C17_Witness ==
    /\ pc = "running"
    /\ result = Err("ScanTerminated")
    /\ call.op = "block"
    /\ call.data = <<FooTestBar>>
    /\ scratch[call.scratch].st = "live"
    /\ reported = << [id |-> 0, from |-> 4, to |-> 8, flags |-> 0] >>
    /\ answers = <<FALSE>>
    /\ pending = <<>>

(* ------------------------------------------------------------------ *)
(* Native failures                                                     *)
(* ------------------------------------------------------------------ *)

NextErrors ==
    \/ \E nomem \in BOOLEAN : alloc("s", DbBlock, nomem)
    \/ \E nomem \in BOOLEAN : realloc("s", DbFoobar, nomem)
    \/ size("s")
    \/ \E nomem \in BOOLEAN : clone("s", "s2", nomem)
    \/ \E v \in ScratchVars, corrupt \in BOOLEAN : drop(v, corrupt)
    \/ \E nomem \in BOOLEAN : open_stream("st", DbStreaming, nomem)
    \/ \E nomem \in BOOLEAN, r \in {"valid", "stale", "crash"} :
          stream_clone("st", "st2", nomem, r)
    \/ block_scan(DbBlock, Foo, "s", "None")
    \/ \E r \in {"valid", "stale", "crash"} : stream_scan("st", Foo, "s", "None", r)
    \/ \E r \in {"valid", "stale", "crash"} : stream_reset("st", "s", "None", r)
    \/ \E r \in {"valid", "stale", "crash"} : stream_close("st", "s", "None", r)
    \/ \E code \in {"HS_SUCCESS", "HS_INVALID"} : hs_return(code)

SpecErrors == Init /\ [][NextErrors]_vars

\* the regions and native stream states in use
Allocated == {r \in Regions : region[r].st = "alloc"}
Opened == {n \in Natives : nstream[n].st = "open"}

\* C18: alloc, realloc, size, open_stream, scan, reset and close turn a native
\* failure into Err of its kind, once, and go on; a failed alloc or open_stream
\* makes no handle and leaves nothing allocated for it.  clone of a scratch or
\* of a stream and the drop of a scratch panic on a native failure, return no
\* value, and nothing runs after the panic
C18_ErrOrPanic ==
    [][ /\ pc # "panicked"
        /\ \A v \in ScratchVars, db \in {DbBlock, DbFoobar} :
             /\ alloc(v, db, TRUE) =>
                   /\ result' = Err("NoMem")
                   /\ pc' = "idle"
                   /\ scratch' = scratch
                   /\ Allocated' = Allocated
             /\ realloc(v, db, TRUE) =>
                   /\ result' = Err("NoMem")
                   /\ pc' = "idle"
                   /\ scratch'[v].st = "live"
             /\ (size(v) /\ scratch[v].ptr = 0) =>
                   /\ result' = Err("Invalid")
                   /\ pc' = "idle"
        /\ \A v \in StreamVars :
             open_stream(v, DbStreaming, TRUE) =>
                /\ result' = Err("NoMem")
                /\ pc' = "idle"
                /\ stream' = stream
                /\ Opened' = Opened
        /\ \A code \in {"HS_INVALID", "HS_SCAN_TERMINATED"} :
             hs_return(code) =>
                /\ result' = Err(ErrorOf(code))
                /\ call'.ret = Err(ErrorOf(code))
                /\ pc' = "idle"
                /\ pending' = <<>>
        /\ \A v, w \in ScratchVars :
             (clone(v, w, TRUE) \/ (scratch[v].ptr = 0 /\ clone(v, w, FALSE))) =>
                /\ pc' = "panicked"
                /\ scratch' = scratch
                /\ result' = result
        /\ \A v, w \in StreamVars :
             stream_clone(v, w, TRUE, "valid") =>
                /\ pc' = "panicked"
                /\ stream' = stream
                /\ result' = result
        /\ \A v \in ScratchVars :
             drop(v, TRUE) =>
                /\ pc' = "panicked"
                /\ result' = result ]_vars

\* open_stream has failed with NoMem and made no stream; later the clone of the
\* scratch s has failed, which panicked and made no second scratch
C18_Witness ==
    /\ pc = "panicked"
    /\ result = Err("NoMem")
    /\ stream["st"].st = "unborn"
    /\ Opened = {}
    /\ Holds("s")
    /\ scratch["s2"].st = "unborn"
    /\ Allocated = {scratch["s"].ptr}

(* ------------------------------------------------------------------ *)
(* The context handed to the engine (under Spec)                       *)
(* ------------------------------------------------------------------ *)

\* C20 as stated: whenever the engine invokes match_event_callback, the storage
\* its context points to is still in scope and holds the callback reference
C20_ContextStillLive ==
    /\ "dangling_context" \notin faults
    /\ (pc = "running" /\ call.w.handler # "null") => ~Dangling(call.w.context)

====
